---- MODULE Spec2Model ----
(***************************************************************************)
(* A model of computer.py: the Computer virtual machine (15-bit words,     *)
(* eight registers, a stack, 32768 words of memory), its 22 instruction    *)
(* actions, the fetch-decode-execute step and the run loop.                *)
(*                                                                         *)
(* Memory is kept sparsely: the variable mem holds the cells that were     *)
(* loaded or written, and every other cell of the 32768 reads as 0, which  *)
(* is what [0] * MOD gives them.  A Python exception is modelled by the    *)
(* name of its error kind in err; the state it leaves behind is whatever   *)
(* the code had already assigned when it was raised.                       *)
(***************************************************************************)
EXTENDS Integers, Sequences, FiniteSets, TLC

VARIABLES
    eip,        \* self.eip: instruction pointer, or -1 once halted
    regs,       \* self.regs: the 8 registers, indexed 0..7
    stack,      \* self.stack: top of stack is the last element
    mem,        \* self.mem, sparsely (see MemAt)
    num_steps,  \* self.num_steps: count of successful steps
    cur_line,   \* self.cur_line: unread rest of the current input line (None is <<>>)
    istream,    \* self.istream: the lines the input source still holds
    ostream,    \* self.ostream: code points written so far
    flushed,    \* how many of them the sink has flushed
    err,        \* outcome of the last step: "none" before any, "ok", or the error raised
    cur_eip,    \* step's local cur_eip
    opcode,     \* step's local opcode
    args,       \* step's local args
    image,      \* the words of the file given to load
    loaded,     \* whether load has been called
    callrec,    \* history: the call instructions whose return address is still stacked
    run_pc,     \* "idle", or "running" while run's for loop is active
    run_left,   \* the iterations the loop has left: <<n>>, or <<>> for itertools.count()
    run_args,   \* the arguments of the current or last call of run
    run_count0, \* history: num_steps when run was called
    run_iters,  \* history: the calls of step the loop has made
    run_res,    \* how the last run ended: "none", "returned" or "raised"
    failed,     \* history: whether some call of step has raised
    consumed,   \* history: the code points the successful in instructions stored
    input0,     \* history: the lines the input source held at construction
    listing,    \* the lines the last call of parse_text printed
    dis_err,    \* how it ended: "none" before any, "ok", or the error raised
    dis_args    \* its arguments

machine == <<eip, regs, stack, mem, num_steps, cur_line, istream, ostream, flushed>>
locals == <<err, cur_eip, opcode, args>>
runvars == <<run_pc, run_left, run_args, run_count0, run_iters, run_res>>
history == <<failed, consumed, input0>>
disvars == <<listing, dis_err, dis_args>>
vars == <<machine, locals, image, loaded, callrec, runvars, history, disvars>>

MOD == 32768
MSK == MOD - 1
R0 == MOD + 0
R1 == MOD + 1
HALTED == -1
NumRegs == 8

\* The bound on the number of successful steps explored.
MaxSteps == 8

Min(a, b) == IF a < b THEN a ELSE b

\* ------------------------------------------------------------------ state

\* The machine as one value: the fields of a Computer object.
Cur ==
    [eip |-> eip, regs |-> regs, stack |-> stack, mem |-> mem,
     num_steps |-> num_steps, cur_line |-> cur_line, istream |-> istream,
     ostream |-> ostream, flushed |-> flushed]

\* self.mem[a] for 0 <= a < MOD.
MemAt(s, a) == IF a \in DOMAIN s.mem THEN s.mem[a] ELSE 0

\* self.mem[a] = v
MemSet(m, a, v) == [x \in (DOMAIN m) \cup {a} |-> IF x = a THEN v ELSE m[x]]

\* self.mem[lo:lo+n], for 0 <= lo <= MOD: a Python slice stops at the end of the list.
MemSlice(s, lo, n) == [i \in 1..(Min(lo + n, MOD) - lo) |-> MemAt(s, lo + i - 1)]

\* ------------------------------------------------------- literal resolution

get_lit(s, literal) ==
    IF literal < MOD THEN [ok |-> TRUE, val |-> literal]
    ELSE IF literal < MOD + NumRegs THEN [ok |-> TRUE, val |-> s.regs[literal - MOD]]
    ELSE [ok |-> FALSE, val |-> 0]

\* set_lit storing into the register after the one named.
set_lit_next_reg(s, literal, value) ==
    IF ~(0 <= value /\ value < MOD) THEN [s |-> s, err |-> "InvalidValue"]
    ELSE IF MOD <= literal /\ literal < MOD + NumRegs
         THEN [s |-> [s EXCEPT !.regs[(literal - MOD + 1) % NumRegs] = value], err |-> "ok"]
    ELSE IF literal < MOD THEN [s |-> s, err |-> "ImmutableTarget"]
    ELSE [s |-> s, err |-> "OutOfRange"]

\* set_lit without its assertion on the value.
set_lit_unchecked(s, literal, value) ==
    IF MOD <= literal /\ literal < MOD + NumRegs
    THEN [s |-> [s EXCEPT !.regs[literal - MOD] = value], err |-> "ok"]
    ELSE IF literal < MOD THEN [s |-> s, err |-> "ImmutableTarget"]
    ELSE [s |-> s, err |-> "OutOfRange"]

set_lit(s, literal, value) ==
    IF ~(0 <= value /\ value < MOD) THEN [s |-> s, err |-> "InvalidValue"]
    ELSE IF MOD <= literal /\ literal < MOD + NumRegs
         THEN [s |-> [s EXCEPT !.regs[literal - MOD] = value], err |-> "ok"]
    ELSE IF literal < MOD THEN [s |-> s, err |-> "ImmutableTarget"]
    ELSE [s |-> s, err |-> "OutOfRange"]

\* ------------------------------------------------------ instruction actions
\* An action's result: the state it leaves, whether it returned a new
\* instruction pointer (jump, neip) or None, and the error it raised, if any.

Fall(s) == [s |-> s, jump |-> FALSE, neip |-> 0, err |-> "ok"]
Goto(s, t) == [s |-> s, jump |-> TRUE, neip |-> t, err |-> "ok"]
Raise(s, e) == [s |-> s, jump |-> FALSE, neip |-> 0, err |-> e]
\* self.set_lit(a, v) as the last statement of an action
Store(s, a, v) ==
    LET w == set_lit(s, a, v) IN [s |-> w.s, jump |-> FALSE, neip |-> 0, err |-> w.err]

\* Python's & and | on non-negative integers.
RECURSIVE BitAnd(_, _)
BitAnd(x, y) ==
    IF x = 0 \/ y = 0 THEN 0
    ELSE (x % 2) * (y % 2) + 2 * BitAnd(x \div 2, y \div 2)

RECURSIVE BitOr(_, _)
BitOr(x, y) ==
    IF x = 0 THEN y
    ELSE IF y = 0 THEN x
    ELSE (IF x % 2 = 1 \/ y % 2 = 1 THEN 1 ELSE 0) + 2 * BitOr(x \div 2, y \div 2)

op_halt(s) == Goto(s, HALTED)

op_set(s, a, b) ==
    LET g == get_lit(s, b) IN
    IF ~g.ok THEN Raise(s, "OutOfRange") ELSE Store(s, a, g.val)

op_push(s, a) ==
    LET g == get_lit(s, a) IN
    IF ~g.ok THEN Raise(s, "OutOfRange")
    ELSE Fall([s EXCEPT !.stack = Append(@, g.val)])

\* self.stack.pop() is evaluated before set_lit is entered.
op_pop(s, a) ==
    IF s.stack = <<>> THEN Raise(s, "StackUnderflow")
    ELSE Store([s EXCEPT !.stack = SubSeq(@, 1, Len(@) - 1)], a, s.stack[Len(s.stack)])

op_eq(s, a, b, c) ==
    LET x == get_lit(s, b)  y == get_lit(s, c) IN
    IF ~x.ok \/ ~y.ok THEN Raise(s, "OutOfRange")
    ELSE Store(s, a, IF x.val = y.val THEN 1 ELSE 0)

op_gt(s, a, b, c) ==
    LET x == get_lit(s, b)  y == get_lit(s, c) IN
    IF ~x.ok \/ ~y.ok THEN Raise(s, "OutOfRange")
    ELSE Store(s, a, IF x.val > y.val THEN 1 ELSE 0)

op_jmp(s, a) ==
    LET g == get_lit(s, a) IN
    IF ~g.ok THEN Raise(s, "OutOfRange") ELSE Goto(s, g.val)

op_jt(s, a, b) ==
    LET x == get_lit(s, a)  y == get_lit(s, b) IN
    IF ~x.ok THEN Raise(s, "OutOfRange")
    ELSE IF x.val # 0
         THEN (IF ~y.ok THEN Raise(s, "OutOfRange") ELSE Goto(s, y.val))
    ELSE Fall(s)

\* op_jf with op_jt's test.
op_jf_as_jt(s, a, b) ==
    LET x == get_lit(s, a)  y == get_lit(s, b) IN
    IF ~x.ok THEN Raise(s, "OutOfRange")
    ELSE IF x.val # 0
         THEN (IF ~y.ok THEN Raise(s, "OutOfRange") ELSE Goto(s, y.val))
    ELSE Fall(s)

op_jf(s, a, b) ==
    LET x == get_lit(s, a)  y == get_lit(s, b) IN
    IF ~x.ok THEN Raise(s, "OutOfRange")
    ELSE IF x.val = 0
         THEN (IF ~y.ok THEN Raise(s, "OutOfRange") ELSE Goto(s, y.val))
    ELSE Fall(s)

\* op_add reducing modulo MSK instead of masking with it.
op_add_mod_msk(s, a, b, c) ==
    LET x == get_lit(s, b)  y == get_lit(s, c) IN
    IF ~x.ok \/ ~y.ok THEN Raise(s, "OutOfRange")
    ELSE Store(s, a, (x.val + y.val) % MSK)

op_add(s, a, b, c) ==
    LET x == get_lit(s, b)  y == get_lit(s, c) IN
    IF ~x.ok \/ ~y.ok THEN Raise(s, "OutOfRange")
    ELSE Store(s, a, BitAnd(x.val + y.val, MSK))

op_mult(s, a, b, c) ==
    LET x == get_lit(s, b)  y == get_lit(s, c) IN
    IF ~x.ok \/ ~y.ok THEN Raise(s, "OutOfRange")
    ELSE Store(s, a, BitAnd(x.val * y.val, MSK))

op_mod(s, a, b, c) ==
    LET x == get_lit(s, b)  y == get_lit(s, c) IN
    IF ~x.ok \/ ~y.ok THEN Raise(s, "OutOfRange")
    ELSE IF y.val = 0 THEN Raise(s, "ArithmeticError")
    ELSE Store(s, a, BitAnd(x.val % y.val, MSK))

op_and(s, a, b, c) ==
    LET x == get_lit(s, b)  y == get_lit(s, c) IN
    IF ~x.ok \/ ~y.ok THEN Raise(s, "OutOfRange")
    ELSE Store(s, a, BitAnd(BitAnd(x.val, y.val), MSK))

op_or(s, a, b, c) ==
    LET x == get_lit(s, b)  y == get_lit(s, c) IN
    IF ~x.ok \/ ~y.ok THEN Raise(s, "OutOfRange")
    ELSE Store(s, a, BitAnd(BitOr(x.val, y.val), MSK))

\* ~x is -x-1; masking a negative number with MSK takes it modulo MOD.
op_not(s, a, b) ==
    LET x == get_lit(s, b) IN
    IF ~x.ok THEN Raise(s, "OutOfRange")
    ELSE Store(s, a, (0 - x.val - 1) % MOD)

op_rmem(s, a, b) ==
    LET x == get_lit(s, b) IN
    IF ~x.ok THEN Raise(s, "OutOfRange")
    ELSE Store(s, a, MemAt(s, x.val))

\* op_wmem writing at its raw first operand.
op_wmem_raw_address(s, a, b) ==
    LET x == get_lit(s, a)  y == get_lit(s, b) IN
    IF ~x.ok \/ ~y.ok THEN Raise(s, "OutOfRange")
    ELSE Fall([s EXCEPT !.mem = MemSet(@, a, y.val)])

op_wmem(s, a, b) ==
    LET x == get_lit(s, a)  y == get_lit(s, b) IN
    IF ~x.ok \/ ~y.ok THEN Raise(s, "OutOfRange")
    ELSE Fall([s EXCEPT !.mem = MemSet(@, x.val, y.val)])

\* op_call pushing the address of its operand.
op_call_pushes_operand(s, a) ==
    LET s1 == [s EXCEPT !.stack = Append(@, s.eip - 1)]
        g == get_lit(s1, a) IN
    IF ~g.ok THEN Raise(s1, "OutOfRange") ELSE Goto(s1, g.val)

\* self.eip is already past the operand when the action runs; the push
\* happens before the target is resolved.
op_call(s, a) ==
    LET s1 == [s EXCEPT !.stack = Append(@, s.eip)]
        g == get_lit(s1, a) IN
    IF ~g.ok THEN Raise(s1, "OutOfRange") ELSE Goto(s1, g.val)

\* op_ret raising on an empty stack, as op_pop does.
op_ret_underflow(s) ==
    IF s.stack = <<>> THEN Raise(s, "StackUnderflow")
    ELSE Goto([s EXCEPT !.stack = SubSeq(@, 1, Len(@) - 1)], s.stack[Len(s.stack)])

op_ret(s) ==
    IF s.stack = <<>> THEN Goto(s, HALTED)
    ELSE Goto([s EXCEPT !.stack = SubSeq(@, 1, Len(@) - 1)], s.stack[Len(s.stack)])

\* op_out writing its raw operand.
op_out_raw(s, a) ==
    LET o == Append(s.ostream, a) IN
    Fall([s EXCEPT !.ostream = o, !.flushed = IF a = 10 THEN Len(o) ELSE @])

op_out(s, a) ==
    LET g == get_lit(s, a) IN
    IF ~g.ok THEN Raise(s, "OutOfRange")
    ELSE LET o == Append(s.ostream, g.val) IN
         Fall([s EXCEPT !.ostream = o,
                        !.flushed = IF g.val = 10 THEN Len(o) ELSE @])

\* op_in leaving the character it stored in the line buffer.
op_in_keeps_char(s, a) ==
    IF s.cur_line = <<>> /\ s.istream = <<>> THEN Raise(s, "EndOfInput")
    ELSE LET s1 == IF s.cur_line = <<>>
                   THEN [s EXCEPT !.cur_line = Head(s.istream), !.istream = Tail(@)]
                   ELSE s
             w == set_lit(s1, a, Head(s1.cur_line)) IN
         IF w.err # "ok" THEN Raise(w.s, w.err)
         ELSE Fall(w.s)

op_in(s, a) ==
    IF s.cur_line = <<>> /\ s.istream = <<>> THEN Raise(s, "EndOfInput")
    ELSE LET s1 == IF s.cur_line = <<>>
                   THEN [s EXCEPT !.cur_line = Head(s.istream), !.istream = Tail(@)]
                   ELSE s
             w == set_lit(s1, a, Head(s1.cur_line)) IN
         IF w.err # "ok" THEN Raise(w.s, w.err)
         ELSE Fall([w.s EXCEPT !.cur_line = Tail(@)])

op_noop(s) == Fall(s)

\* ------------------------------------------------------------ opcode table

\* Op.nargs of ops[i], for i = 0..21 (the tuple is indexed from 1).
nargs == <<0, 2, 1, 1, 3, 3, 1, 2, 2, 3, 3, 3, 3, 3, 2, 2, 2, 1, 0, 1, 1, 0>>
NumOps == Len(nargs)

\* op(*args): the bound call of ops[i] on the raw operands.
ops(i, s, a) ==
    CASE i = 0 -> op_halt(s)
      [] i = 1 -> op_set(s, a[1], a[2])
      [] i = 2 -> op_push(s, a[1])
      [] i = 3 -> op_pop(s, a[1])
      [] i = 4 -> op_eq(s, a[1], a[2], a[3])
      [] i = 5 -> op_gt(s, a[1], a[2], a[3])
      [] i = 6 -> op_jmp(s, a[1])
      [] i = 7 -> op_jt(s, a[1], a[2])
      [] i = 8 -> op_jf(s, a[1], a[2])
      [] i = 9 -> op_add(s, a[1], a[2], a[3])
      [] i = 10 -> op_mult(s, a[1], a[2], a[3])
      [] i = 11 -> op_mod(s, a[1], a[2], a[3])
      [] i = 12 -> op_and(s, a[1], a[2], a[3])
      [] i = 13 -> op_or(s, a[1], a[2], a[3])
      [] i = 14 -> op_not(s, a[1], a[2])
      [] i = 15 -> op_rmem(s, a[1], a[2])
      [] i = 16 -> op_wmem(s, a[1], a[2])
      [] i = 17 -> op_call(s, a[1])
      [] i = 18 -> op_ret(s)
      [] i = 19 -> op_out(s, a[1])
      [] i = 20 -> op_in(s, a[1])
      [] i = 21 -> op_noop(s)

\* --------------------------------------------------------------------- step

\* step taking a returned pointer of 0 for no pointer returned.
execute_zero_is_none(s, l) ==
    LET l0 == [l EXCEPT !.cur_eip = s.eip] IN
    IF s.eip >= MOD THEN [s |-> s, l |-> l0, err |-> "IndexError"]
    ELSE LET oc == MemAt(s, s.eip)
             s1 == [s EXCEPT !.eip = @ + 1]
             l1 == [l0 EXCEPT !.opcode = oc] IN
    IF oc >= NumOps THEN [s |-> s1, l |-> l1, err |-> "IllegalInstruction"]
    ELSE LET n == nargs[oc + 1]
             as == MemSlice(s1, s1.eip, n)
             s2 == [s1 EXCEPT !.eip = @ + n]
             l2 == [l1 EXCEPT !.args = as] IN
    IF Len(as) # n THEN [s |-> s2, l |-> l2, err |-> "TypeError"]
    ELSE LET r == ops(oc, s2, as) IN
    IF r.err # "ok" THEN [s |-> r.s, l |-> l2, err |-> r.err]
    ELSE [s |-> [r.s EXCEPT !.eip = IF r.jump /\ r.neip # 0 THEN r.neip ELSE @,
                            !.num_steps = @ + 1],
          l |-> l2, err |-> "ok"]

\* step() past its halted check, on machine s with step's locals l: fetch
\* the opcode, look the operation up, slice its operands, call it, and take
\* the pointer it returns.  The machine and the locals it leaves, and the
\* error it raised ("ok" when it returned).
execute(s, l) ==
    LET l0 == [l EXCEPT !.cur_eip = s.eip] IN
    IF s.eip >= MOD THEN [s |-> s, l |-> l0, err |-> "IndexError"]
    ELSE LET oc == MemAt(s, s.eip)
             s1 == [s EXCEPT !.eip = @ + 1]
             l1 == [l0 EXCEPT !.opcode = oc] IN
    IF oc >= NumOps THEN [s |-> s1, l |-> l1, err |-> "IllegalInstruction"]
    ELSE LET n == nargs[oc + 1]
             as == MemSlice(s1, s1.eip, n)
             s2 == [s1 EXCEPT !.eip = @ + n]
             l2 == [l1 EXCEPT !.args = as] IN
    IF Len(as) # n THEN [s |-> s2, l |-> l2, err |-> "TypeError"]
    ELSE LET r == ops(oc, s2, as) IN
    IF r.err # "ok" THEN [s |-> r.s, l |-> l2, err |-> r.err]
    ELSE [s |-> [r.s EXCEPT !.eip = IF r.jump THEN r.neip ELSE @,
                            !.num_steps = @ + 1],
          l |-> l2, err |-> "ok"]

\* step without its halted check.
step_unguarded(s, l) == execute(s, l)

\* step returning at once, without an error, when the machine has halted.
step_halted_returns(s, l) ==
    IF s.eip = HALTED THEN [s |-> s, l |-> l, err |-> "ok"]
    ELSE execute(s, l)

\* One call of step().
step(s, l) ==
    IF s.eip = HALTED THEN [s |-> s, l |-> l, err |-> "AlreadyHalted"]
    ELSE execute(s, l)

\* --------------------------------------------------------------------- load

\* The file handed to load: the image's words as little-endian byte pairs.
FileOf(words) == [a \in DOMAIN words |-> <<words[a] % 256, words[a] \div 256>>]

\* load(f): word ind of the file becomes (j << 8) | i; the cells past the
\* end of the file keep what they held.
load(s, f) ==
    [s EXCEPT !.mem = [a \in (DOMAIN s.mem) \cup (DOMAIN f) |->
                          IF a \in DOMAIN f THEN f[a][2] * 256 + f[a][1]
                          ELSE s.mem[a]]]

\* ------------------------------------------------------- images and inputs

\* A program image: the words seq at addresses base, base+1, ...
At(base, seq) == [a \in base..(base + Len(seq) - 1) |-> seq[a - base + 1]]

\* Operand words tried: numeric 0, 3 and 32767, registers 0 and 1, and the
\* first word that is neither a number nor a register.
ArgVals == {0, 3, MSK, R0, R1, MOD + NumRegs}

\* Words that are no opcode.
IllegalOps == {NumOps, 99, MOD, 65535}

\* Every instruction over ArgVals, and the illegal opcodes.
Instrs ==
    UNION {{<<oc>> \o a : a \in [1..nargs[oc + 1] -> ArgVals]} : oc \in 0..(NumOps - 1)}
    \cup {<<oc>> : oc \in IllegalOps}

\* Code run before the instruction, to give it registers and a stack:
\*   nothing;  set R0 32767; set R1 3; push R1;
\*   set R0 5; set R1 12; push 9; push R0.
Preambles ==
    { <<>>,
      <<1, R0, MSK, 1, R1, 3, 2, R1>>,
      <<1, R0, 5, 1, R1, 12, 2, 9, 2, R0>> }

\* add R0 4 5; out R0; halt
AddOut == <<9, R0, 4, 5, 19, R0, 0>>

\*  0: call 6    2: out 65    4: halt    5: noop    6: push 7
\*  8: call 13  10: pop R0   12: ret    13: ret
CallRet == <<17, 6, 19, 65, 0, 21, 2, 7, 17, 13, 3, R0, 18, 18>>

\*  0: in R0  2: out R0  4: in R1  6: out R1  8: in R0  10: out 10  12: jmp 0
Echo == <<20, R0, 19, R0, 20, R1, 19, R1, 20, R0, 19, 10, 6, 0>>

HandPrograms == {AddOut, CallRet, Echo}

\*  0: jmp 32766   2: pop R0   4: halt   ...   32766: call 2
HighCall == At(0, <<6, MOD - 2, 3, R0, 0>>) @@ At(MOD - 2, <<17, 2>>)

\*  0: jmp 32767   ...   32767: set (its operands past the end of memory)
HighSet == At(0, <<6, MOD - 1>>) @@ At(MOD - 1, <<1>>)
\*  0: jmp 32767   ...   32767: noop
HighNoop == At(0, <<6, MOD - 1>>) @@ At(MOD - 1, <<21>>)

Programs ==
    {At(0, p \o i) : p \in Preambles, i \in Instrs}
    \cup {At(0, h) : h \in HandPrograms} \cup {HighCall, HighSet, HighNoop}

\* What the input source holds: lines of code points, each ending in a newline.
InputStreams == { <<>>, << <<97, 10>>, <<40000, 10>> >>, << <<97, 10>>, <<98>> >> }

\* --------------------------------------------------------- run's arguments

\* An optional argument: None is <<>>, a value v is <<v>>.
None == <<>>
Some(v) == <<v>>

NoArgs == [num_steps |-> None, max_step |-> None, istream |-> None, ostream |-> None]

\* The bound on the step budgets tried.
MaxBudget == 3

\* The calls of run tried: unbounded, num_steps = -1..MaxBudget,
\* max_step = 0..MaxBudget+1, both at once, and with a new input source or
\* a new (empty) output sink.
RunArgs ==
    {NoArgs}
    \cup {[NoArgs EXCEPT !.num_steps = Some(k)] : k \in (0 - 1)..MaxBudget}
    \cup {[NoArgs EXCEPT !.max_step = Some(n)] : n \in 0..(MaxBudget + 1)}
    \cup {[NoArgs EXCEPT !.num_steps = Some(1), !.max_step = Some(MaxBudget)],
          [NoArgs EXCEPT !.num_steps = Some(2), !.istream = Some(<< <<98, 10>> >>)],
          [NoArgs EXCEPT !.max_step = Some(2), !.ostream = Some(<<>>)]}

\* 0: jmp 0
Loop == <<6, 0>>
\* 0: noop  1: noop  2: (illegal)
NoopIll == <<21, 21, 99>>
\* 0: push 1  2: pop 0 (fails)  4: ret
PushPop == <<2, 1, 3, 0, 18>>

RunPrograms == {At(0, h) : h \in HandPrograms \cup {Loop, NoopIll, PushPop}}

\* run taking max_step itself as the number of iterations.
run_max_as_count(s, a) ==
    LET s1 == IF a.istream # None THEN [s EXCEPT !.istream = a.istream[1]] ELSE s
        s2 == IF a.ostream # None
              THEN [s1 EXCEPT !.ostream = a.ostream[1], !.flushed = 0] ELSE s1
        n == IF a.max_step # None THEN a.max_step ELSE a.num_steps IN
    [s |-> s2, left |-> IF n = None THEN None ELSE IF n[1] < 0 THEN Some(0) ELSE n]

\* run up to its for loop: the streams are replaced when given, and the
\* number of iterations is fixed: max_step - self.num_steps when max_step
\* is given, else num_steps (None: unbounded); range(n) is empty for n <= 0.
run(s, a) ==
    LET s1 == IF a.istream # None THEN [s EXCEPT !.istream = a.istream[1]] ELSE s
        s2 == IF a.ostream # None
              THEN [s1 EXCEPT !.ostream = a.ostream[1], !.flushed = 0] ELSE s1
        n == IF a.max_step # None THEN Some(a.max_step[1] - s2.num_steps)
             ELSE a.num_steps IN
    [s |-> s2, left |-> IF n = None THEN None ELSE IF n[1] < 0 THEN Some(0) ELSE n]

\* --------------------------------------------------------------- parse_text

\* Op.name of ops[i], for i = 0..21: fn.__name__, the name of the action's
\* function (the tuple is indexed from 1).
names ==
    <<"op_halt", "op_set", "op_push", "op_pop", "op_eq", "op_gt", "op_jmp", "op_jt",
      "op_jf", "op_add", "op_mult", "op_mod", "op_and", "op_or", "op_not", "op_rmem",
      "op_wmem", "op_call", "op_ret", "op_out", "op_in", "op_noop">>

\* self.mem[i] as Python indexes a list of MOD cells: an index below 0 counts
\* from the end, and one outside -MOD..MOD-1 raises IndexError (ok = FALSE).
PyMem(s, i) ==
    IF i >= MOD \/ i < 0 - MOD THEN [ok |-> FALSE, val |-> 0]
    ELSE [ok |-> TRUE, val |-> MemAt(s, IF i < 0 THEN i + MOD ELSE i)]

\* How parse_text writes one operand word.
render_arg(arg) ==
    IF arg < MOD THEN ToString(IF 2 * arg >= MOD THEN arg - MOD ELSE arg)
    ELSE IF arg < MOD + NumRegs THEN "R" \o ToString(arg - MOD)
    ELSE "?" \o ToString(arg) \o "/R" \o ToString(arg - MOD)

\* parse_text's inner loop: n operands read from cur_pos and appended to the
\* line str; an IndexError ends it with " EOM" and cur_pos where it was.
RECURSIVE parse_args(_, _, _, _)
parse_args(s, cur_pos, n, str) ==
    IF n = 0 THEN [str |-> str, cur_pos |-> cur_pos]
    ELSE LET m == PyMem(s, cur_pos) IN
         IF ~m.ok THEN [str |-> str \o " EOM", cur_pos |-> cur_pos]
         ELSE parse_args(s, cur_pos + 1, n - 1, str \o " " \o render_arg(m.val))

\* parse_text's while loop from cur_pos, with the lines printed so far: the
\* lines printed in all, and the error raised ("ok" when the loop ended).
RECURSIVE parse_loop(_, _, _, _)
parse_loop(s, cur_pos, end, out) ==
    IF ~(cur_pos < end) THEN [out |-> out, err |-> "ok"]
    ELSE LET m == PyMem(s, cur_pos) IN
         IF ~m.ok THEN [out |-> out, err |-> "IndexError"]
         ELSE IF ~(0 <= m.val /\ m.val < NumOps)
              THEN parse_loop(s, cur_pos + 1, end,
                              Append(out, ToString(cur_pos) \o ": ILLOP " \o ToString(m.val)))
         ELSE LET a == parse_args(s, cur_pos + 1, nargs[m.val + 1],
                                  ToString(cur_pos) \o ": " \o names[m.val + 1]) IN
              parse_loop(s, a.cur_pos, end, Append(out, a.str))

\* parse_text(start_pos, num_bytes)
parse_text(s, a) ==
    LET start_pos == IF a.start_pos = None THEN s.eip
                     ELSE IF a.start_pos[1] < 0 THEN s.eip - a.start_pos[1]
                     ELSE a.start_pos[1] IN
    parse_loop(s, start_pos, start_pos + a.num_bytes, <<>>)

\* parse_text(): start_pos = None, num_bytes = 40.
NoDisArgs == [start_pos |-> None, num_bytes |-> 40]

\* The bound on the spans disassembled, besides the default of 40.
MaxSpan == 4

\* The calls of parse_text tried: from the pointer, from an offset after
\* it, from addresses at both ends of memory; spans of 1..MaxSpan and 40.
DisArgs ==
    {[start_pos |-> p, num_bytes |-> n] :
        p \in {None, Some(0 - 1), Some(0), Some(1), Some(4), Some(MOD - 2), Some(MOD - 1)},
        n \in (1..MaxSpan) \cup {40}}

\*  0: add R0 4 5
AddOnly == At(0, <<9, R0, 4, 5>>)
\*  0: add R0 16383 16384   4: wmem 32767 ?32776   7: (99)   8: eq R7 ?65535 0
Operands == At(0, <<9, R0, 16383, 16384, 16, MSK, MOD + NumRegs, 99, 4, MOD + 7, 65535, 0>>)

DisPrograms == {AddOnly, Operands, HighSet, HighNoop, HighCall}

\* --------------------------------------------------------------- behaviours

\* Computer(istream): the state __init__ leaves.
Init ==
    /\ eip = 0
    /\ regs = [r \in 0..(NumRegs - 1) |-> 0]
    /\ stack = <<>>
    /\ mem = <<>>
    /\ num_steps = 0
    /\ cur_line = <<>>
    /\ istream \in InputStreams
    /\ ostream = <<>>
    /\ flushed = 0
    /\ err = "none"
    /\ cur_eip = 0
    /\ opcode = 0
    /\ args = <<>>
    /\ image = <<>>
    /\ loaded = FALSE
    /\ callrec = <<>>
    /\ run_pc = "idle"
    /\ run_left = <<0>>
    /\ run_args = NoArgs
    /\ run_count0 = 0
    /\ run_iters = 0
    /\ run_res = "none"
    /\ failed = FALSE
    /\ consumed = <<>>
    /\ input0 = istream
    /\ listing = <<>>
    /\ dis_err = "none"
    /\ dis_args = NoDisArgs

Locals == [cur_eip |-> cur_eip, opcode |-> opcode, args |-> args]

\* The machine's variables take the fields of s.
Becomes(s) ==
    /\ eip' = s.eip
    /\ regs' = s.regs
    /\ stack' = s.stack
    /\ mem' = s.mem
    /\ num_steps' = s.num_steps
    /\ cur_line' = s.cur_line
    /\ istream' = s.istream
    /\ ostream' = s.ostream
    /\ flushed' = s.flushed

\* load(f), once, on the fresh machine.
Load(img) ==
    /\ ~loaded
    /\ Becomes(load(Cur, FileOf(img)))
    /\ image' = img
    /\ loaded' = TRUE
    /\ UNCHANGED <<locals, callrec, runvars, history, disvars>>

\* The calls whose return address is still on the stack after a step that
\* leaves stack st: a successful call adds itself (where it was, and the
\* stack it found); an entry is forgotten once the stack is no deeper than
\* that call found it.
Calls(recs, st, r) ==
    LET Keep(c) == c.depth < Len(r.s.stack)
        kept == SelectSeq(recs, Keep) IN
    IF r.err = "ok" /\ r.l.opcode = 17
    THEN Append(kept, [depth |-> Len(st), at |-> r.l.cur_eip, before |-> st])
    ELSE kept

\* The code points stored by in so far, after a step whose result is r: a
\* successful in adds what it left in its target register.
Consumed(cs, r) ==
    IF r.err = "ok" /\ r.l.opcode = 20
    THEN Append(cs, r.s.regs[r.l.args[1] - MOD])
    ELSE cs

\* The variables after a call of step() whose result is r.
Stepped(r) ==
    /\ Becomes(r.s)
    /\ err' = r.err
    /\ cur_eip' = r.l.cur_eip
    /\ opcode' = r.l.opcode
    /\ args' = r.l.args
    /\ callrec' = Calls(callrec, stack, r)
    /\ failed' = (failed \/ r.err # "ok")
    /\ consumed' = Consumed(consumed, r)
    /\ UNCHANGED input0

\* step(), called by the owner of the machine.
Step ==
    /\ loaded
    /\ run_pc = "idle"
    /\ num_steps < MaxSteps
    /\ Stepped(step(Cur, Locals))
    /\ UNCHANGED <<image, loaded, runvars, disvars>>

\* The owner loads one of the images.
LoadImage == ~loaded /\ \E img \in Programs : Load(img)

Next ==
    \/ LoadImage
    \/ Step

Spec == Init /\ [][Next]_vars

\* ---------------------------------------------------------------------- run

\* run(num_steps, max_step=, istream=, ostream=), called on a loaded machine.
RunCall(a) ==
    /\ loaded
    /\ run_pc = "idle"
    /\ LET r == run(Cur, a) IN
        /\ Becomes(r.s)
        /\ run_left' = r.left
    /\ run_pc' = "running"
    /\ run_args' = a
    /\ run_count0' = num_steps
    /\ run_iters' = 0
    /\ run_res' = "none"
    /\ UNCHANGED <<locals, image, loaded, callrec, history, disvars>>

\* One iteration of run's for loop: self.step(); an error ends the run.
RunIter ==
    /\ run_pc = "running"
    /\ run_left # <<0>>
    /\ num_steps < MaxSteps \/ eip = HALTED
    /\ LET r == step(Cur, Locals) IN
        /\ Stepped(r)
        /\ IF r.err = "ok"
           THEN /\ run_left' = (IF run_left = <<>> THEN <<>> ELSE <<run_left[1] - 1>>)
                /\ UNCHANGED <<run_pc, run_res>>
           ELSE /\ run_pc' = "idle"
                /\ run_res' = "raised"
                /\ UNCHANGED run_left
    /\ run_iters' = run_iters + 1
    /\ UNCHANGED <<image, loaded, run_args, run_count0, disvars>>

\* The for loop is exhausted: run returns.
RunReturn ==
    /\ run_pc = "running"
    /\ run_left = <<0>>
    /\ run_pc' = "idle"
    /\ run_res' = "returned"
    /\ UNCHANGED <<machine, locals, image, loaded, callrec, history, disvars,
                   run_left, run_args, run_count0, run_iters>>

\* The owner loads one of the images that are run.
LoadRunImage == ~loaded /\ \E img \in RunPrograms : Load(img)

RunAny == \E a \in RunArgs : RunCall(a)

NextRun ==
    \/ LoadRunImage
    \/ RunAny
    \/ RunIter
    \/ RunReturn

SpecRun == Init /\ [][NextRun]_vars

\* run's loop is sequential code: an iteration that can be made is made, and
\* an exhausted loop returns.
SpecRunFair == SpecRun /\ WF_vars(RunIter) /\ WF_vars(RunReturn)

\* --------------------------------------------------------------- disassembly

\* parse_text(start_pos, num_bytes), called by the owner of the machine: it
\* prints, and assigns nothing of the machine.
ParseText(a) ==
    /\ loaded
    /\ run_pc = "idle"
    /\ LET r == parse_text(Cur, a) IN
        /\ listing' = r.out
        /\ dis_err' = r.err
    /\ dis_args' = a
    /\ UNCHANGED <<machine, locals, image, loaded, callrec, runvars, history>>

\* The owner loads one of the images that are disassembled.
LoadDisImage == ~loaded /\ \E img \in DisPrograms : Load(img)

Disassemble == \E a \in DisArgs : ParseText(a)

NextDis ==
    \/ LoadDisImage
    \/ Step
    \/ Disassemble

SpecDis == Init /\ [][NextDis]_vars

\* ------------------------------------------------------------------- claims

\* The instruction at the pointer, when the pointer is inside memory.
InMem == loaded /\ eip >= 0 /\ eip < MOD
OpAt == MemAt(Cur, eip)
ArgAt(i) == MemAt(Cur, eip + i)
IsReg(w) == MOD <= w /\ w < MOD + NumRegs

\* The operand count the instruction set gives each opcode 0..21.
Arity(oc) ==
    CASE oc \in {0, 18, 21} -> 0
      [] oc \in {2, 3, 6, 17, 19, 20} -> 1
      [] oc \in {1, 7, 8, 14, 15, 16} -> 2
      [] oc \in {4, 5, 9, 10, 11, 12, 13} -> 3

\* C1: at a pointer p inside memory whose word is no opcode in 0..21, step
\* fails with IllegalInstruction and leaves the pointer at p, with
\* registers, stack, memory and the step counter unchanged.
C1_IllegalLeavesPointer ==
    [][(InMem /\ OpAt \notin 0..21)
        => (/\ err' = "IllegalInstruction"
            /\ eip' = eip
            /\ UNCHANGED <<regs, stack, mem, num_steps>>)]_vars

\* C2: a call at p with a valid target sets the pointer to Read(arg1) and
\* pushes p+2; and a ret that finds the entry of a recorded call on top of
\* the stack sets the pointer to that call's p+2 and leaves the stack as
\* that call found it.
C2_CallThenRet ==
    [][/\ (InMem /\ eip < MOD - 1 /\ OpAt = 17 /\ get_lit(Cur, ArgAt(1)).ok)
            => (/\ eip' = get_lit(Cur, ArgAt(1)).val
                /\ stack' = Append(stack, eip + 2))
       /\ (InMem /\ OpAt = 18 /\ callrec # <<>>
             /\ callrec[Len(callrec)].depth = Len(stack) - 1)
            => (/\ eip' = callrec[Len(callrec)].at + 2
                /\ stack' = callrec[Len(callrec)].before)]_vars

\* A ret has returned from the outer call of CallRet, past a nested call,
\* a push and a pop.
C2_Witness ==
    /\ image = At(0, CallRet)
    /\ err = "ok" /\ opcode = 18 /\ cur_eip = 12
    /\ eip = 2 /\ stack = <<>>

\* C3: with an empty stack, a step at a ret leaves exactly what a step at
\* a halt at the same address would: no error, the pointer halted, and
\* registers, stack and memory as they were.
C3_RetOnEmptyIsHalt ==
    (InMem /\ OpAt = 18 /\ stack = <<>>)
        => LET r == step(Cur, Locals)
               h == step([Cur EXCEPT !.mem = MemSet(@, eip, 0)], Locals) IN
           /\ r.err = "ok" /\ h.err = "ok"
           /\ r.s.eip = HALTED
           /\ r.s = [h.s EXCEPT !.mem = mem]
           /\ r.s.regs = regs /\ r.s.stack = <<>> /\ r.s.mem = mem

\* A ret on an empty stack has executed.
C3_Witness ==
    err = "ok" /\ opcode = 18 /\ eip = HALTED /\ stack = <<>> /\ regs[0] = 5

\* Values and numeric literals tried in C4.
WordSample == {0, 3, 16384, MSK}

\* C4: Read(v) = v for a numeric literal v whatever the registers hold;
\* after Write(32768+r, x), Read(32768+r) = x and every other register
\* reads as before.
C4_LiteralRoundTrip ==
    /\ \A v \in WordSample : get_lit(Cur, v) = [ok |-> TRUE, val |-> v]
    /\ \A r \in 0..(NumRegs - 1), x \in WordSample :
          LET w == set_lit(Cur, MOD + r, x) IN
          /\ w.err = "ok"
          /\ get_lit(w.s, MOD + r) = [ok |-> TRUE, val |-> x]
          /\ \A q \in 0..(NumRegs - 1) \ {r} :
                get_lit(w.s, MOD + q) = get_lit(Cur, MOD + q)

\* Two set instructions have written two registers.
C4_Witness ==
    err = "ok" /\ opcode = 1 /\ args = <<R1, 12>> /\ regs[0] = 5 /\ regs[1] = 12

\* Bit i of x.
Bit(x, i) == (x \div (2 ^ i)) % 2

\* The value the instruction set gives opcode oc on operand values b and c.
Expected(oc, b, c) ==
    CASE oc = 4 -> IF b = c THEN 1 ELSE 0
      [] oc = 5 -> IF b > c THEN 1 ELSE 0
      [] oc = 9 -> (b + c) % MOD
      [] oc = 10 -> (b * c) % MOD
      [] oc = 11 -> b % c
      [] oc = 12 -> LET f[i \in 0..15] ==
                        IF i = 15 THEN 0
                        ELSE (IF Bit(b, i) = 1 /\ Bit(c, i) = 1 THEN 2 ^ i ELSE 0) + f[i + 1]
                    IN f[0]
      [] oc = 13 -> LET f[i \in 0..15] ==
                        IF i = 15 THEN 0
                        ELSE (IF Bit(b, i) = 1 \/ Bit(c, i) = 1 THEN 2 ^ i ELSE 0) + f[i + 1]
                    IN f[0]
      [] oc = 14 -> MSK - b

\* C5: with a register target and resolved operands b and c, one step of
\* eq, gt, add, mult, mod, and, or, not stores exactly the value of the
\* instruction set (eq and gt only ever 0 or 1); mod by 0 fails with
\* ArithmeticError and writes nothing.
C5_StoredValue ==
    (InMem /\ OpAt \in {4, 5, 9, 10, 11, 12, 13, 14} /\ eip + Arity(OpAt) < MOD
       /\ IsReg(ArgAt(1)) /\ get_lit(Cur, ArgAt(2)).ok
       /\ (OpAt # 14 => get_lit(Cur, ArgAt(3)).ok))
        => LET b == get_lit(Cur, ArgAt(2)).val
               c == IF OpAt = 14 THEN 0 ELSE get_lit(Cur, ArgAt(3)).val
               r == step(Cur, Locals) IN
           IF OpAt = 11 /\ c = 0
           THEN r.err = "ArithmeticError" /\ r.s.regs = regs
           ELSE /\ r.err = "ok"
                /\ r.s.regs = [regs EXCEPT ![ArgAt(1) - MOD] = Expected(OpAt, b, c)]
                /\ (OpAt \in {4, 5} => r.s.regs[ArgAt(1) - MOD] \in {0, 1})

\* mult R0 R0 R0 has squared 32767 into 1.
C5_Witness ==
    err = "ok" /\ opcode = 10 /\ args = <<R0, R0, R0>> /\ regs[0] = 1 /\ num_steps = 4

\* C6: after any sequence of steps, successful or failing, every register
\* holds a value in [0, 32768).
C6_RegistersAreWords ==
    \A r \in 0..(NumRegs - 1) : regs[r] >= 0 /\ regs[r] < MOD

\* An rmem of a memory word >= 32768 has been refused.
C6_Witness ==
    err = "InvalidValue" /\ opcode = 15 /\ MemAt(Cur, get_lit(Cur, args[2]).val) >= MOD

\* The instruction at the pointer returns no new pointer: it is none of
\* halt, jmp, call, ret, and a jt or jf there is not taken.
ReturnsNone ==
    /\ OpAt \in (0..21) \ {0, 6, 17, 18}
    /\ OpAt = 7 => (get_lit(Cur, ArgAt(1)).ok /\ get_lit(Cur, ArgAt(1)).val = 0)
    /\ OpAt = 8 => (get_lit(Cur, ArgAt(1)).ok /\ get_lit(Cur, ArgAt(1)).val # 0)

\* C7: a successful step at p of an instruction that returns no new
\* pointer leaves the pointer at p + 1 + arity; a noop changes nothing
\* else (but the step counter).
C7_PointerAdvance ==
    InMem => LET r == step(Cur, Locals) IN
             /\ (ReturnsNone /\ r.err = "ok") => r.s.eip = eip + 1 + Arity(OpAt)
             /\ OpAt = 21 => (/\ r.err = "ok"
                              /\ r.s = [Cur EXCEPT !.eip = eip + 1,
                                                   !.num_steps = num_steps + 1])

\* A jf that was not taken has fallen through to the next instruction.
C7_Witness ==
    err = "ok" /\ opcode = 8 /\ args = <<R0, 0>> /\ regs[0] = 5 /\ eip = cur_eip + 3

\* C8: once the pointer is the halted sentinel, a step fails with
\* AlreadyHalted and the pointer, registers, stack, memory, output and
\* step counter never change again.
C8_HaltedIsTerminal ==
    [][(eip = HALTED)
        => (/\ err' = "AlreadyHalted"
            /\ eip' = HALTED
            /\ UNCHANGED <<regs, stack, mem, ostream, num_steps>>)]_vars

\* A step has been refused after a ret on an empty stack halted the machine.
C8_Witness ==
    err = "AlreadyHalted" /\ opcode = 18 /\ eip = HALTED /\ num_steps > 1

\* C9: the output grows by exactly Read(arg1) at each out executed and by
\* nothing else; and three steps of add R0 4 5; out R0; halt leave
\* register 0 = 9, the other registers 0, the output <<9>>, the stack
\* empty and the pointer halted.
C9_OutputTrace ==
    /\ []((image = At(0, AddOut) /\ num_steps = 3)
            => (/\ regs = [r \in 0..(NumRegs - 1) |-> IF r = 0 THEN 9 ELSE 0]
                /\ ostream = <<9>>
                /\ stack = <<>>
                /\ eip = HALTED))
    /\ [][ostream' =
            IF InMem /\ eip < MOD - 1 /\ OpAt = 19 /\ get_lit(Cur, ArgAt(1)).ok
            THEN Append(ostream, get_lit(Cur, ArgAt(1)).val)
            ELSE ostream]_vars

\* The scenario has run to its halt.
C9_Witness ==
    image = At(0, AddOut) /\ num_steps = 3 /\ ostream = <<9>> /\ eip = HALTED

Max(a, b) == IF a > b THEN a ELSE b

\* The current or last run was given only num_steps = k, with k >= 0.
ByNumSteps ==
    /\ run_args.max_step = None
    /\ run_args.num_steps # None
    /\ run_args.num_steps[1] >= 0

\* The current or last run was given max_step.
ByMaxStep == run_args.max_step # None

\* C10: run(num_steps=k) makes at most k steps, and exactly k when none
\* fails; run(max_step=N) steps only while the step counter is below N, so
\* it returns with the counter at max(N, counter at the call), having made
\* no step when the counter was already N or more; and in every mode the
\* loop makes no step after one failed, nor executes anything once halted.
C10_RunBudget ==
    /\ [](/\ ByNumSteps
             => (/\ run_iters <= run_args.num_steps[1]
                 /\ num_steps - run_count0 <= run_args.num_steps[1]
                 /\ run_res = "returned"
                      => (/\ run_iters = run_args.num_steps[1]
                          /\ num_steps - run_count0 = run_args.num_steps[1]))
          /\ ByMaxStep
             => (/\ run_res = "returned"
                      => num_steps = Max(run_args.max_step[1], run_count0)
                 /\ run_count0 >= run_args.max_step[1] => run_iters = 0)
          /\ (run_pc = "running" /\ run_iters > 0) => err = "ok"
          /\ run_res = "raised" => num_steps - run_count0 = run_iters - 1)
    /\ [][(run_iters' = run_iters + 1)
            => (/\ ByMaxStep => num_steps < run_args.max_step[1]
                /\ eip = HALTED => (UNCHANGED machine /\ run_pc' = "idle"
                                      /\ run_res' = "raised")
                /\ err' # "ok" => (run_pc' = "idle" /\ run_res' = "raised"))]_vars

\* A run with max_step above the counter left by an earlier run has returned.
C10_Witness ==
    /\ run_res = "returned"
    /\ run_args.max_step = Some(MaxBudget + 1)
    /\ run_count0 = 2
    /\ num_steps = MaxBudget + 1

\* ---------------------------------------------------------------------- C11

\* The instruction names of the opcode table, by opcode (indexed from 1).
Mnemonics ==
    <<"halt", "set", "push", "pop", "eq", "gt", "jmp", "jt", "jf", "add", "mult",
      "mod", "and", "or", "not", "rmem", "wmem", "call", "ret", "out", "in", "noop">>

\* The same names as the functions of the actions are called.
FunctionNames == [i \in 1..Len(Mnemonics) |-> "op_" \o Mnemonics[i]]

\* An operand word as the disassembler is to write it.
Rendered(v) ==
    IF v \in 0..16383 THEN ToString(v)
    ELSE IF v \in 16384..32767 THEN ToString(v - 32768)
    ELSE IF v \in 32768..32775 THEN "R" \o ToString(v - 32768)
    ELSE "?" \o ToString(v) \o "/R" \o ToString(v - 32768)

\* The operands k..n of the instruction at p, each after a space.
RECURSIVE OperandText(_, _, _)
OperandText(p, k, n) ==
    IF k > n THEN ""
    ELSE " " \o Rendered(MemAt(Cur, p + k)) \o OperandText(p, k + 1, n)

\* The instruction at p is one the rendering rule speaks of: an unknown
\* opcode, or a known one whose operands all lie inside memory.
Renderable(p) ==
    /\ p \in 0..(MOD - 1)
    /\ MemAt(Cur, p) < Len(Mnemonics) => p + Arity(MemAt(Cur, p)) < MOD

\* The line for address p, with the mnemonics mn.
LineAt(p, mn) ==
    LET oc == MemAt(Cur, p) IN
    IF oc < Len(mn) THEN ToString(p) \o ": " \o mn[oc + 1] \o OperandText(p, 1, Arity(oc))
    ELSE ToString(p) \o ": ILLOP " \o ToString(oc)

\* The lines for the instructions from p up to end, as far as they are
\* renderable: each starts where the one before it ended.
RECURSIVE LinesFrom(_, _, _)
LinesFrom(p, end, mn) ==
    IF ~(p < end /\ Renderable(p)) THEN <<>>
    ELSE LET oc == MemAt(Cur, p) IN
         <<LineAt(p, mn)>> \o
         LinesFrom(p + 1 + (IF oc < Len(mn) THEN Arity(oc) ELSE 0), end, mn)

IsPrefix(s, t) == Len(s) <= Len(t) /\ SubSeq(t, 1, Len(s)) = s

\* Every disassembly from a given address prints, first of all, the lines of
\* the renderable instructions of its span.
PrintsFirst(mn) ==
    \A a \in DisArgs :
        (a.start_pos # None /\ a.start_pos[1] >= 0) =>
            IsPrefix(LinesFrom(a.start_pos[1], a.start_pos[1] + a.num_bytes, mn),
                     parse_text(Cur, a).out)

\* C11: the disassembler prints, for each renderable instruction of the span,
\* "{p}: {mnemonic}" and the operands as decimal, negative decimal, R{n} or
\* ?{v}/R{v-32768}, "{p}: ILLOP {i}" for an unknown opcode, one word on; the
\* mnemonic being the instruction name of the opcode table ("add" for 9).
C11_Rendering == loaded => PrintsFirst(Mnemonics)

\* C11, what the code does: the same lines with the name of the action's
\* function for mnemonic ("op_add" for 9).
C11_RenderingFunctionNames == loaded => PrintsFirst(FunctionNames)

\* C11: [9, 32768, 4, 5] at address 0 has been disassembled.
C11_Witness ==
    /\ image = AddOnly
    /\ dis_args = [start_pos |-> Some(0), num_bytes |-> 4]
    /\ listing = <<"0: op_add R0 4 5">>

\* ---------------------------------------------------------------------- C12

\* C12: a disassembly from an address in [0, MOD) raises nothing, whatever
\* the span and the memory.
C12_NeverFails ==
    (dis_args.start_pos # None /\ dis_args.start_pos[1] \in 0..(MOD - 1)) =>
        dis_err \in {"none", "ok"}

\* C12, the part that holds: a disassembly leaves pointer, registers, stack
\* and memory as they were.
C12_ReadOnly == [][disvars' # disvars => UNCHANGED machine]_vars

\* C12: a partial instruction was printed with EOM, and the call returned.
C12_Witness ==
    /\ dis_args = [start_pos |-> Some(MOD - 1), num_bytes |-> 1]
    /\ listing = <<"32767: op_set EOM">>
    /\ dis_err = "ok"

\* ---------------------------------------------------------------------- C13

Top(st) == st[Len(st)]
Rest(st) == SubSeq(st, 1, Len(st) - 1)

\* What a pop at the pointer does to a stack whose entries satisfy ok: with
\* a register target it stores the top entry and removes exactly that one;
\* on an empty stack it fails with StackUnderflow, the pointer not halted, the
\* registers as they were and the stack empty.
PopDiscipline(ok(_)) ==
    (InMem /\ OpAt = 3 /\ eip + 1 < MOD)
        => LET r == step(Cur, Locals) IN
           /\ (stack # <<>> /\ IsReg(ArgAt(1)) /\ ok(Top(stack)))
                 => /\ r.err = "ok"
                    /\ r.s.regs = [regs EXCEPT ![ArgAt(1) - MOD] = Top(stack)]
                    /\ r.s.stack = Rest(stack)
           /\ stack = <<>>
                 => /\ r.err = "StackUnderflow"
                    /\ r.s.eip # HALTED
                    /\ r.s.regs = regs
                    /\ r.s.stack = <<>>

\* A push at the pointer puts Read(arg1) on top of the stack as it is.
PushDiscipline ==
    (InMem /\ OpAt = 2 /\ eip + 1 < MOD /\ ArgAt(1) < MOD + NumRegs)
        => LET r == step(Cur, Locals) IN
           /\ r.err = "ok"
           /\ r.s.stack = Append(stack, IF IsReg(ArgAt(1)) THEN regs[ArgAt(1) - MOD]
                                        ELSE ArgAt(1))

AnyEntry(v) == TRUE
IsWord(v) == v \in 0..(MOD - 1)

\* C13: push puts Read(arg1) on top; pop with a register target stores the
\* entry on top (the latest one pushed and not yet popped) in the register and
\* removes exactly that entry; pop on an empty stack fails with
\* StackUnderflow, halts nothing and leaves the registers and the empty stack.
C13_StackDiscipline == PushDiscipline /\ PopDiscipline(AnyEntry)

\* C13, for the stacks whose top entry is a Word.
C13_StackDisciplineOfWords == PushDiscipline /\ PopDiscipline(IsWord)

\* C13: two entries were pushed and a pop has stored the later one.
C13_Witness ==
    /\ err = "ok" /\ opcode = 3 /\ args = <<R1>>
    /\ regs[1] = 5 /\ regs[0] = 5 /\ stack = <<9>>

\* ---------------------------------------------------------------------- C14

\* C14: after successful steps only, from any loaded image, the pointer is
\* halted or an address in [0, MOD), and the step to come fetches its opcode
\* and all its operands inside memory: no fetch beyond the last cell, no
\* action called with fewer operands than its arity.
C14_AddressRange ==
    (loaded /\ ~failed)
        => /\ eip = HALTED \/ eip \in 0..(MOD - 1)
           /\ step(Cur, Locals).err \notin {"IndexError", "TypeError"}

\* ---------------------------------------------------------------------- C15

\* C15: every stack entry is a Word, the return addresses pushed by call too.
C15_StackOfWords == \A i \in 1..Len(stack) : stack[i] \in 0..(MOD - 1)

\* ---------------------------------------------------------------------- C16

\* Read(w) for an operand word w that is a numeric literal or a register.
ReadOf(w) == IF IsReg(w) THEN regs[w - MOD] ELSE w

\* The cell a of the memory m.
CellOf(m, a) == IF a \in DOMAIN m THEN m[a] ELSE 0

\* The memory n is m with the cells of the function upd set, the rest as in m.
SameBut(n, m, upd) ==
    \A x \in (DOMAIN n) \cup (DOMAIN m) \cup (DOMAIN upd) :
        CellOf(n, x) = IF x \in DOMAIN upd THEN upd[x] ELSE CellOf(m, x)

\* C16: a step of any instruction but wmem, and a wmem that fails, leaves
\* every memory cell as it is; a successful wmem sets the cell Read(arg1) to
\* Read(arg2), a Word, changes no other cell, no register and no stack entry,
\* and an rmem of that address in the state it leaves stores that value; the
\* memory has the cells 0..MOD-1 and no other.
C16_MemoryFrame ==
    /\ DOMAIN mem \subseteq 0..(MOD - 1)
    /\ InMem
         => LET r == step(Cur, Locals) IN
            IF OpAt = 16 /\ r.err = "ok"
            THEN LET a == ReadOf(ArgAt(1))
                     v == ReadOf(ArgAt(2)) IN
                 /\ a \in 0..(MOD - 1) /\ v \in 0..(MOD - 1)
                 /\ DOMAIN r.s.mem \subseteq 0..(MOD - 1)
                 /\ SameBut(r.s.mem, mem, a :> v)
                 /\ r.s.regs = regs /\ r.s.stack = stack
                 /\ \A g \in 0..(NumRegs - 1) :
                       LET q == op_rmem(r.s, MOD + g, a) IN
                       q.err = "ok" /\ q.s.regs[g] = v
            ELSE SameBut(r.s.mem, mem, <<>>)

\* C16: a wmem through registers has written 32767 over the word at 3.
C16_Witness ==
    /\ err = "ok" /\ opcode = 16 /\ args = <<R1, R0>>
    /\ regs[1] = 3 /\ regs[0] = MSK
    /\ image[3] = 1 /\ CellOf(mem, 3) = MSK

\* ---------------------------------------------------------------------- C17

\* C17: a jt at p leaves the pointer at Read(arg2) when Read(arg1) # 0 and at
\* p + 3 otherwise, a jf at Read(arg2) when Read(arg1) = 0 and at p + 3
\* otherwise, for every target (0 too), and neither changes registers, stack
\* or memory.
C17_ConditionalJumps ==
    (/\ InMem /\ OpAt \in {7, 8} /\ eip + 2 < MOD
     /\ ArgAt(1) < MOD + NumRegs)
        => LET r == step(Cur, Locals)
               taken == (OpAt = 7) = (ReadOf(ArgAt(1)) # 0) IN
           (taken => ArgAt(2) < MOD + NumRegs)
               => /\ r.err = "ok"
                  /\ r.s.eip = IF taken THEN ReadOf(ArgAt(2)) ELSE eip + 3
                  /\ r.s.regs = regs /\ r.s.stack = stack /\ r.s.mem = mem

\* C17: a jt away from address 10 was taken to address 0.
C17_Witness ==
    /\ err = "ok" /\ opcode = 7 /\ args = <<R0, 0>>
    /\ regs[0] = 5 /\ cur_eip = 10 /\ eip = 0

\* ---------------------------------------------------------------------- C18

\* The lines ls as one sequence of code points.
RECURSIVE Flatten(_)
Flatten(ls) == IF ls = <<>> THEN <<>> ELSE Head(ls) \o Flatten(Tail(ls))

\* C18: the code points stored by the successful in instructions so far,
\* then the line buffer, then the lines still in the source, are the lines the
\* source was given, in order; a line leaves the source only when the buffer
\* is empty, and it is the next one; an in finding the buffer empty and the
\* source without a line fails with EndOfInput, its registers as they were.
C18_InputOrdering ==
    /\ [](/\ consumed \o cur_line \o Flatten(istream) = Flatten(input0)
          /\ (/\ InMem /\ OpAt = 20 /\ eip + 1 < MOD
              /\ cur_line = <<>> /\ istream = <<>>)
                => LET r == step(Cur, Locals) IN
                   r.err = "EndOfInput" /\ r.s.regs = regs)
    /\ [][(/\ istream' # istream => (cur_line = <<>> /\ istream' = Tail(istream))
           /\ Len(consumed') <= Len(consumed) + 1
           /\ consumed' # consumed
                => (/\ InMem /\ OpAt = 20 /\ IsReg(ArgAt(1))
                    /\ regs'[ArgAt(1) - MOD] = consumed'[Len(consumed')]))]_vars

\* C18: two lines were read, one character an instruction, and the next in
\* found no line.
C18_Witness ==
    /\ input0 = << <<97, 10>>, <<98>> >>
    /\ consumed = <<97, 10, 98>>
    /\ err = "EndOfInput" /\ opcode = 20 /\ regs[0] = 98

\* ---------------------------------------------------------------------- C19

\* The error kinds a failed step is said to be atomic for.
ErrorKinds ==
    {"OutOfRange", "InvalidValue", "ImmutableTarget", "StackUnderflow",
     "ArithmeticError", "IllegalInstruction", "EndOfInput"}

\* C19: a step that fails with one of the error kinds leaves registers, stack
\* and memory exactly as they were and the step counter not incremented.
C19_FailedStepsAtomic ==
    loaded => LET r == step(Cur, Locals) IN
              r.err \in ErrorKinds
                  => /\ r.s.regs = regs
                     /\ r.s.stack = stack
                     /\ SameBut(r.s.mem, mem, <<>>)
                     /\ r.s.num_steps = num_steps

\* C19, the part that holds: a failed step leaves registers and memory as
\* they were and does not count; the stack is as it was or, for a pop, without
\* its top entry or, for a call, with the return address on top.
C19_FailedStepsEffect ==
    loaded => LET r == step(Cur, Locals) IN
              r.err \in ErrorKinds
                  => /\ r.s.regs = regs
                     /\ SameBut(r.s.mem, mem, <<>>)
                     /\ r.s.num_steps = num_steps
                     /\ \/ r.s.stack = stack
                        \/ OpAt = 3 /\ stack # <<>> /\ r.s.stack = Rest(stack)
                        \/ OpAt = 17 /\ r.s.stack = Append(stack, eip + 2)

\* ---------------------------------------------------------------------- C20

\* The current or last run was given no budget.
Unbounded == run_args.num_steps = None /\ run_args.max_step = None

\* C20: run returns only with its budget exhausted; a halt or a ret on an
\* empty stack executed with budget left (or without a budget) is counted and
\* the loop goes on; the iteration after it fails with AlreadyHalted, which
\* ends the run, the machine as it was; an unbounded run that has ended was
\* ended by a failed step; and a run whose machine has halted with budget left
\* does end so.
C20_HowRunEnds ==
    /\ [](/\ run_res = "returned" => (~Unbounded /\ run_left = <<0>>)
          /\ run_res = "raised" => err \notin {"ok", "none"}
          /\ (Unbounded /\ run_pc = "idle" /\ run_res # "none")
                => (run_res = "raised" /\ failed))
    /\ [][(run_iters' = run_iters + 1)
            => (/\ (eip # HALTED /\ eip' = HALTED)
                     => (/\ opcode' \in {0, 18}
                         /\ err' = "ok"
                         /\ num_steps' = num_steps + 1
                         /\ run_left' # <<0>>
                               => (run_pc' = "running" /\ run_res' = "none"))
                /\ eip = HALTED
                     => (/\ err' = "AlreadyHalted"
                         /\ run_pc' = "idle" /\ run_res' = "raised"
                         /\ UNCHANGED machine))]_vars
    /\ (run_pc = "running" /\ eip = HALTED /\ run_left # <<0>>)
          ~> (run_pc = "idle" /\ run_res = "raised" /\ err = "AlreadyHalted")

\* C20: an unbounded run executed add, out and halt, counted the three, and
\* ended with the AlreadyHalted of its fourth iteration.
C20_Witness ==
    /\ image = At(0, AddOut) /\ Unbounded
    /\ run_res = "raised" /\ err = "AlreadyHalted"
    /\ run_count0 = 0 /\ run_iters = 4 /\ num_steps = 3 /\ eip = HALTED


====
